---- MODULE Spec2Model ----
(***************************************************************************)
(* A model of the two form-filling pipelines of the repository:            *)
(*   - pdf_form_fill_workflow.py : generate_blank_form (pagination/layout  *)
(*     engine and field-position registry), mock_api_fetch_person and      *)
(*     fill_form (overlay filling at the recorded positions, then the      *)
(*     verification pass over the extracted text);                         *)
(*   - fill_roofing_permit.py    : discover_widgets, fill_permit (filling  *)
(*     of the AcroForm widgets, with ordinal radio-group resolution) and   *)
(*     verify_filled.                                                      *)
(* The schema, the page height, the data record and the widgets of the     *)
(* input document are inputs, drawn from bounded sets.  Spec is one run of *)
(* either pipeline on valid inputs; the other specifications add errors of *)
(* the document engine, a second fill run, larger records, schemas with a  *)
(* duplicate key and pages too short for a row.                            *)
(***************************************************************************)
EXTENDS Integers, Sequences, FiniteSets, TLC

(***************************************************************************)
(* Bounds of the model.                                                    *)
(***************************************************************************)
MaxSections == 2
MaxFields == 3
MinPageHeight == 242
HeightStep == 14
MaxHeightSteps == 3
MaxRecordKeys == 1
MaxWideRecordKeys == 2

(***************************************************************************)
(* Layout constants of pdf_form_fill_workflow.py.                          *)
(***************************************************************************)
PAGE_H == 792
MARGIN_L == 50
MARGIN_B == 50
FOOTER_RESERVE == 40
HEADER_BOTTOM == 90
band_h == 24
BAND_GAP == 10
row_h == 28
SECTION_SLACK == 20
SECTION_GAP == 12
SIGNATURE_NEEDED == 100
PLACEHOLDER_PAGE == -1

\* FORM_SECTIONS of the source: the section titles, and the field keys in
\* declaration order.  A modelled schema takes its titles and keys from here.
TITLES ==
  << "PERSONAL INFORMATION", "CONTACT INFORMATION", "EMPLOYMENT DETAILS",
     "EMERGENCY CONTACT", "GOVERNMENT IDENTIFICATION" >>

KEYS ==
  << "first_name", "middle_name", "last_name", "date_of_birth", "gender",
     "marital_status", "nationality", "email", "phone", "alt_phone",
     "street_address", "apt_suite", "city", "state", "zip_code", "country",
     "employer_name", "job_title", "department", "employee_id" >>

LABELS ==
  << "First Name", "Middle Name", "Last Name", "Date of Birth", "Gender",
     "Marital Status", "Nationality", "Email Address", "Phone Number",
     "Alternate Phone", "Street Address", "Apt / Suite", "City", "State",
     "ZIP Code", "Country", "Employer Name", "Job Title", "Department",
     "Employee ID" >>

\* Decimal rendering of the small naturals that occur as page numbers.
NUM == << "1", "2", "3", "4", "5", "6", "7", "8", "9", "10", "11", "12",
          "13", "14", "15", "16", "17", "18", "19", "20" >>

(***************************************************************************)
(* Python values of a data record: None, a bool or a str.                  *)
(***************************************************************************)
PyNone == [t |-> "none", s |-> "", b |-> FALSE]
PyStr(s) == [t |-> "str", s |-> s, b |-> FALSE]
PyBool(b) == [t |-> "bool", s |-> "", b |-> b]

\* Python truthiness: None, False and "" are falsy.
Truthy(v) ==
  CASE v.t = "none" -> FALSE
    [] v.t = "bool" -> v.b
    [] OTHER -> v.s # ""

\* str(value)
Str(v) ==
  CASE v.t = "none" -> "None"
    [] v.t = "bool" -> (IF v.b THEN "True" ELSE "False")
    [] OTHER -> v.s

\* dict.get(key, default)
Get(d, k, default) == IF k \in DOMAIN d THEN d[k] ELSE default

(***************************************************************************)
(* Schemas: ordered sections of ordered fields, keys unique across the     *)
(* whole schema (as in FORM_SECTIONS).                                     *)
(***************************************************************************)
RECURSIVE SumTo(_, _)
SumTo(sizes, n) == IF n = 0 THEN 0 ELSE sizes[n] + SumTo(sizes, n - 1)

Field(i) == [key |-> KEYS[i], label |-> LABELS[i]]

SchemaOf(sizes) ==
  [i \in 1..Len(sizes) |->
     [title |-> TITLES[i],
      fields |-> [j \in 1..sizes[i] |-> Field(SumTo(sizes, i - 1) + j)]]]

Schemas ==
  UNION {{SchemaOf(sizes) : sizes \in [1..n -> 0..MaxFields]} : n \in 1..MaxSections}

\* The page heights tried: the source's US Letter height and a range of short
\* pages, on each of which a section header and one row fit below the header.
PageHeights == {PAGE_H} \cup {MinPageHeight + HeightStep * k : k \in 0..MaxHeightSteps}

(***************************************************************************)
(* The document: what is drawn on a page.                                  *)
(***************************************************************************)
Item(op, text, key, yy) == [op |-> op, text |-> text, key |-> key, y |-> yy]

\* Mutant of NewPageDoc: every new_page() appends two pages.
NewPageDocTwice(d) ==
  Append(Append(d, << Item("header", "ACME CORPORATION", "", 0) >>),
         << Item("header", "ACME CORPORATION", "", 0) >>)

\* doc.new_page(): a page is appended, and _draw_header draws on it.
NewPageDoc(d) == Append(d, << Item("header", "ACME CORPORATION", "", 0) >>)

\* Drawing on current_page, which is the page created last.
DrawOn(d, item) == [d EXCEPT ![Len(d)] = Append(@, item)]

\* The bottom limit of the body of a page.
BottomLimit(h) == h - MARGIN_B - FOOTER_RESERVE

(***************************************************************************)
(* A dict kept in insertion order: a sequence of entries with unique keys. *)
(***************************************************************************)
DictKeys(d) == {d[i].key : i \in DOMAIN d}
DictIndex(d, k) == CHOOSE i \in DOMAIN d : d[i].key = k
DictSet(d, k, e) ==
  IF k \in DictKeys(d) THEN [d EXCEPT ![DictIndex(d, k)] = e] ELSE Append(d, e)

(***************************************************************************)
(* The data records of the workflow: any of the first MaxRecordKeys keys   *)
(* may be absent, or hold a bool, the empty string or a text.              *)
(***************************************************************************)
RecordValues == {PyStr("Alexander"), PyStr(""), PyBool(TRUE), PyBool(FALSE)}
RecordKeys == {KEYS[i] : i \in 1..MaxRecordKeys}
Records == UNION {[S -> RecordValues] : S \in SUBSET RecordKeys}
NoRecord == [k \in {} |-> PyNone]

(***************************************************************************)
(* fill_roofing_permit.py: widgets, documents and records.                 *)
(***************************************************************************)
MaxWidgets == 2
MaxPages == 2

PDF_WIDGET_TYPE_BUTTON == 1
PDF_WIDGET_TYPE_CHECKBOX == 2
PDF_WIDGET_TYPE_RADIOBUTTON == 5
PDF_WIDGET_TYPE_TEXT == 7

\* RADIO_SELECTIONS: group name -> 0-based ordinal of the choice to select
\* (two of the six groups of the source).
RADIO_SELECTIONS == [g \in {"Group6", "Group8"} |-> IF g = "Group6" THEN 0 ELSE 1]

Widget(name, type, value) == [field_name |-> name, field_type |-> type, field_value |-> value]

\* The widgets of a blank document: nothing is filled in, checked or selected.
BlankWidgets ==
  { Widget("Master permit", PDF_WIDGET_TYPE_TEXT, ""),
    Widget("Reroofing", PDF_WIDGET_TYPE_CHECKBOX, "Off"),
    Widget("Group6", PDF_WIDGET_TYPE_RADIOBUTTON, "Off"),
    Widget("Group8", PDF_WIDGET_TYPE_RADIOBUTTON, "Off"),
    Widget("Group12", PDF_WIDGET_TYPE_RADIOBUTTON, "Off"),
    Widget("Reroofing", PDF_WIDGET_TYPE_BUTTON, "") }

RECURSIVE Flatten(_)
Flatten(pages) == IF pages = << >> THEN << >> ELSE Head(pages) \o Flatten(Tail(pages))

\* Documents of 1..MaxPages pages holding at most MaxWidgets widgets in all.
PagesOf(ws, cuts) ==
  [p \in 1..(Len(cuts) + 1) |->
     SubSeq(ws, (IF p = 1 THEN 0 ELSE cuts[p - 1]) + 1,
                IF p = Len(cuts) + 1 THEN Len(ws) ELSE cuts[p])]

Monotone(cuts) == \A i \in 1..(Len(cuts) - 1) : cuts[i] <= cuts[i + 1]

PermitDocs ==
  UNION {UNION {{PagesOf(ws, cuts) :
                   cuts \in {c \in [1..(np[2] - 1) -> 0..np[1]] : Monotone(c)}} :
                ws \in [1..np[1] -> BlankWidgets]} :
         np \in (0..MaxWidgets) \X (1..MaxPages)}

ProjectValues == {PyStr("MP-2024-05821"), PyStr(""), PyBool(TRUE), PyBool(FALSE)}
ProjectKeys == {"Master permit", "Reroofing"}
ProjectRecords == UNION {[S -> ProjectValues] : S \in SUBSET ProjectKeys}

NoDoc == << >>

\* The files of the two scripts: generate_blank_form saves blank_path and
\* fill_form saves filled_path; main of fill_roofing_permit.py reads pdf_path
\* and has fill_permit save output_path.
blank_path == "form_blank.pdf"
filled_path == "form_filled.pdf"
pdf_path == "roofing-permit.pdf"

\* Mutant of output_path: the result is saved over the input.
output_path_input == "roofing-permit.pdf"

output_path == "roofing-permit-filled.pdf"

\* doc.save(path), seen from the file stored at file_path: it takes the
\* saved content when it is the file saved, and stays as it is otherwise.
DocSave(file, file_path, content, path) == IF path = file_path THEN content ELSE file
NoSummary == << >>
NoReport == << >>

VARIABLES
  pc,               \* position of the running program
  FORM_SECTIONS,    \* workflow: the schema (input)
  page_height,      \* workflow: the page height (input)
  doc,              \* generate_blank_form: the document, a sequence of pages of drawn items
  finalized,        \* generate_blank_form: the pages (1-based) whose shape was committed
  page_num,         \* generate_blank_form: page_num
  y,                \* generate_blank_form: the cursor y
  sec_idx,          \* generate_blank_form: the section being laid out (1-based)
  fld_idx,          \* generate_blank_form: the next field of that section (1-based)
  field_positions,  \* the registry: a dict in insertion order
  blank_pdf,        \* the file form_blank.pdf
  person_data,      \* workflow: the fetched record
  fdoc,             \* fill_form: the opened document
  fp_idx,           \* fill_form: position in field_positions.items()
  filled_count,     \* fill_form: filled_count
  filled_pdf,       \* the file form_filled.pdf
  pdf,              \* permit: the file roofing-permit.pdf (input): pages of widgets
  project_data,     \* permit: the fetched record
  wdoc,             \* fill_permit: the opened document
  page_idx,         \* fill_permit: page index (1-based)
  w_idx,            \* fill_permit: position in page.widgets()
  text_filled,      \* fill_permit: text_filled
  checkboxes_checked, \* fill_permit: checkboxes_checked
  radios_selected,  \* fill_permit: radios_selected
  skipped,          \* fill_permit: skipped
  radio_seen,       \* fill_permit: radio_seen
  updates,          \* fill_permit: the widgets given to widget.update(), in order
  out_pdf,          \* the file roofing-permit-filled.pdf
  summary,          \* discover_widgets: summary
  verified,         \* fill_form, verify_filled: verified
  missing,          \* fill_form, verify_filled: missing
  total_filled,     \* verify_filled: len(filled_widgets)
  failed,           \* the document engine has raised an error
  runs,             \* the number of fill runs started on the inputs
  first_report      \* what the first fill run returned

layoutVars == << doc, finalized, page_num, y, sec_idx, fld_idx, field_positions, blank_pdf >>
fillVars == << person_data, fdoc, fp_idx, filled_count, filled_pdf >>
permitVars == << project_data, wdoc, page_idx, w_idx, text_filled, checkboxes_checked,
                 radios_selected, skipped, radio_seen, updates, out_pdf >>
inputVars == << FORM_SECTIONS, page_height, pdf >>
verifyVars == << verified, missing, total_filled >>
runVars == << failed, runs, first_report >>

vars == << pc, inputVars, layoutVars, fillVars, permitVars, summary, verifyVars, runVars >>

(***************************************************************************)
(* Init: the inputs of one run.  Either the workflow runs (on a schema and *)
(* a page height) or the permit filler runs (on an input document).        *)
(***************************************************************************)
InitState ==
  /\ doc = NoDoc /\ finalized = {} /\ page_num = 0 /\ y = 0
  /\ sec_idx = 1 /\ fld_idx = 1 /\ field_positions = << >> /\ blank_pdf = NoDoc
  /\ person_data = NoRecord /\ fdoc = NoDoc /\ fp_idx = 1 /\ filled_count = 0
  /\ filled_pdf = NoDoc
  /\ project_data = NoRecord /\ wdoc = NoDoc /\ page_idx = 1 /\ w_idx = 1
  /\ text_filled = 0 /\ checkboxes_checked = 0 /\ radios_selected = 0
  /\ skipped = << >> /\ radio_seen = [g \in {} |-> 0] /\ updates = << >>
  /\ out_pdf = NoDoc
  /\ summary = NoSummary
  /\ verified = 0 /\ missing = << >> /\ total_filled = 0
  /\ failed = FALSE /\ runs = 1 /\ first_report = NoReport

InitWorkflow ==
  /\ pc = "generate_blank_form"
  /\ FORM_SECTIONS \in Schemas
  /\ page_height \in PageHeights
  /\ pdf = NoDoc
  /\ InitState

InitPermit ==
  /\ pc = "discover_widgets"
  /\ FORM_SECTIONS = << >>
  /\ page_height = PAGE_H
  /\ pdf \in PermitDocs
  /\ InitState

Init == InitWorkflow \/ InitPermit

(***************************************************************************)
(* PHASE 1 -- generate_blank_form                                          *)
(***************************************************************************)

\* Mutant of Needed: only the header band is counted.
NeededHeaderOnly(section) == band_h + BAND_GAP

\* line 237: needed = 24 + 10 + len(section["fields"]) * 28 + 20
Needed(section) == band_h + BAND_GAP + Len(section.fields) * row_h + SECTION_SLACK

\* line 238: the page-break test taken before a section header
SectionOverflows(yy, section, h) == yy + Needed(section) > BottomLimit(h)

\* Mutant of RowOverflows: the footer reserve is left out of the limit.
RowOverflowsNoReserve(yy, h) == yy + row_h > h - MARGIN_B

\* line 245: the page-break test taken before a field row
RowOverflows(yy, h) == yy + row_h > BottomLimit(h)

\* _draw_section_header: the band is drawn at yy; returns the new y
SectionHeaderItem(title, yy) == Item("section", title, "", yy)
DrawSectionHeader(yy) == yy + band_h + BAND_GAP

\* Mutant of ContinuationTitle: the suffix is left out.
ContinuationTitleNoSuffix(title) == title

\* line 248: the title of a continuation header
ContinuationTitle(title) == title \o " (cont.)"

\* _draw_field_row: the label is drawn, the position is recorded with the
\* placeholder page; returns the new y
FieldRowItem(field, yy) == Item("row", field.label \o ":", field.key, yy + 14)
RecordPosition(fp, key, yy) ==
  DictSet(fp, key, [key |-> key, x |-> MARGIN_L + 180 + 2, y |-> yy + 14,
                    page |-> PLACEHOLDER_PAGE])

\* Mutant of DrawFieldRow: the cursor is not advanced below the row.
DrawFieldRowNoAdvance(yy) == yy

\* line 199: return y + row_h
DrawFieldRow(yy) == yy + row_h

\* Mutant of SetPage: the 1-based page_num is stored.
SetPageOneBased(fp, key, pn) == [fp EXCEPT ![DictIndex(fp, key)].page = pn]

\* line 251: field_positions[field_key]["page"] = page_num - 1
SetPage(fp, key, pn) == [fp EXCEPT ![DictIndex(fp, key)].page = pn - 1]

\* Mutant of RegisterField: the registry is started afresh at every row.
RegisterFieldFresh(fp, key, yy, pn) == SetPage(RecordPosition(<< >>, key, yy), key, pn)

\* lines 250-251: the registry after a row is drawn at yy on page page_num = pn
RegisterField(fp, key, yy, pn) == SetPage(RecordPosition(fp, key, yy), key, pn)

\* Mutant of AdvanceField: after a page break the same field is laid out again.
AdvanceFieldRedraw(i, brk) == IF brk THEN i ELSE i + 1

\* line 244: the for loop goes on with the next field, after a page break too
AdvanceField(i, brk) == i + 1

\* lines 211-233: the empty document, and the first new_page()
GenerateStart ==
  /\ pc = "generate_blank_form"
  /\ doc' = NewPageDoc(<< >>)
  /\ finalized' = {}
  /\ field_positions' = << >>
  /\ page_num' = 1
  /\ y' = HEADER_BOTTOM
  /\ sec_idx' = 1
  /\ fld_idx' = 1
  /\ pc' = "section"
  /\ UNCHANGED << inputVars, blank_pdf, fillVars, permitVars >>
  /\ UNCHANGED << summary, verifyVars, runVars >>

\* lines 235-242: one section: the page-break test, then the section header
SectionStart ==
  /\ pc = "section"
  /\ sec_idx <= Len(FORM_SECTIONS)
  /\ LET section == FORM_SECTIONS[sec_idx]
         brk == SectionOverflows(y, section, page_height)
         d1 == IF brk THEN NewPageDoc(doc) ELSE doc
         y1 == IF brk THEN HEADER_BOTTOM ELSE y
     IN /\ finalized' = IF brk THEN finalized \cup {Len(doc)} ELSE finalized
        /\ page_num' = IF brk THEN page_num + 1 ELSE page_num
        /\ doc' = DrawOn(d1, SectionHeaderItem(section.title, y1))
        /\ y' = DrawSectionHeader(y1)
  /\ fld_idx' = 1
  /\ pc' = "field"
  /\ UNCHANGED << inputVars, sec_idx, field_positions, blank_pdf, fillVars, permitVars >>
  /\ UNCHANGED << summary, verifyVars, runVars >>

\* lines 244-251: one field: the page-break test (with its continuation
\* header), the row, and the page index of the recorded position
FieldStep ==
  /\ pc = "field"
  /\ fld_idx <= Len(FORM_SECTIONS[sec_idx].fields)
  /\ LET section == FORM_SECTIONS[sec_idx]
         field == section.fields[fld_idx]
         brk == RowOverflows(y, page_height)
         d1 == IF brk
               THEN DrawOn(NewPageDoc(doc),
                           SectionHeaderItem(ContinuationTitle(section.title), HEADER_BOTTOM))
               ELSE doc
         y1 == IF brk THEN DrawSectionHeader(HEADER_BOTTOM) ELSE y
         pn == IF brk THEN page_num + 1 ELSE page_num
     IN /\ finalized' = IF brk THEN finalized \cup {Len(doc)} ELSE finalized
        /\ page_num' = pn
        /\ doc' = DrawOn(d1, FieldRowItem(field, y1))
        /\ field_positions' = RegisterField(field_positions, field.key, y1, pn)
        /\ y' = DrawFieldRow(y1)
        /\ fld_idx' = AdvanceField(fld_idx, brk)
  /\ UNCHANGED << pc, inputVars, sec_idx, blank_pdf, fillVars, permitVars >>
  /\ UNCHANGED << summary, verifyVars, runVars >>

\* line 253: the gap after a section
SectionEnd ==
  /\ pc = "field"
  /\ fld_idx > Len(FORM_SECTIONS[sec_idx].fields)
  /\ y' = y + SECTION_GAP
  /\ sec_idx' = sec_idx + 1
  /\ pc' = "section"
  /\ UNCHANGED << inputVars, doc, finalized, page_num, fld_idx, field_positions,
                  blank_pdf, fillVars, permitVars >>
  /\ UNCHANGED << summary, verifyVars, runVars >>

\* lines 255-281: the signature block
SignatureBlock ==
  /\ pc = "section"
  /\ sec_idx > Len(FORM_SECTIONS)
  /\ LET brk == y + SIGNATURE_NEEDED > BottomLimit(page_height)
         d1 == IF brk THEN NewPageDoc(doc) ELSE doc
         y1 == IF brk THEN HEADER_BOTTOM ELSE y
     IN /\ finalized' = IF brk THEN finalized \cup {Len(doc)} ELSE finalized
        /\ page_num' = IF brk THEN page_num + 1 ELSE page_num
        /\ doc' = DrawOn(d1, Item("signature", "APPLICANT SIGNATURE", "", y1 + 20))
        /\ y' = y1 + 20 + 30
  /\ pc' = "footers"
  /\ UNCHANGED << inputVars, sec_idx, fld_idx, field_positions, blank_pdf, fillVars, permitVars >>
  /\ UNCHANGED << summary, verifyVars, runVars >>

\* Mutant of FooterItem: the total is the number of the page being drawn.
FooterItemRunningTotal(k, n, h) ==
  Item("footer", "Page " \o NUM[k] \o " of " \o NUM[k], "", h - 30)

\* _draw_footer: "Page k of N", at PAGE_H - 30
FooterItem(k, n, h) == Item("footer", "Page " \o NUM[k] \o " of " \o NUM[n], "", h - 30)

\* lines 283-289: the last page is finalized, then every page gets its footer
DrawFooters ==
  /\ pc = "footers"
  /\ finalized' = finalized \cup {Len(doc)}
  /\ doc' = [i \in 1..Len(doc) |-> Append(doc[i], FooterItem(i, Len(doc), page_height))]
  /\ pc' = "save_blank"
  /\ UNCHANGED << inputVars, page_num, y, sec_idx, fld_idx, field_positions, blank_pdf,
                  fillVars, permitVars >>
  /\ UNCHANGED << summary, verifyVars, runVars >>

\* lines 291-302: form_blank.pdf is saved; field_positions is returned
SaveBlankForm ==
  /\ pc = "save_blank"
  /\ blank_pdf' = doc
  /\ pc' = "mock_api_fetch_person"
  /\ UNCHANGED << inputVars, doc, finalized, page_num, y, sec_idx, fld_idx, field_positions,
                  fillVars, permitVars >>
  /\ UNCHANGED << summary, verifyVars, runVars >>

(***************************************************************************)
(* PHASE 2 -- mock_api_fetch_person                                        *)
(***************************************************************************)
FetchPerson(records) ==
  /\ pc = "mock_api_fetch_person"
  /\ person_data' \in records
  /\ pc' = "fill_form"
  /\ UNCHANGED << inputVars, layoutVars, fdoc, fp_idx, filled_count, filled_pdf, permitVars >>
  /\ UNCHANGED << summary, verifyVars, runVars >>

MockApiFetchPerson == FetchPerson(Records)

(***************************************************************************)
(* PHASE 3 -- fill_form                                                    *)
(***************************************************************************)

\* doc[i] of Python, for a 0-based or negative i (1-based result)
PageAt(d, i) == IF i < 0 THEN Len(d) + i + 1 ELSE i + 1

\* lines 411-413: value = person_data.get(field_key, ""); if not value: continue
FillValue(data, key) == Get(data, key, PyStr(""))
FillWrites(value) == Truthy(value)

\* lines 415-422: page.insert_text((x, y), str(value))
ValueItem(key, value, pos) == Item("value", Str(value), key, pos.y)
\* Mutant of InsertValue: the value is drawn a second time (a retry).
InsertValueTwice(d, pos, key, value) ==
  [d EXCEPT ![PageAt(d, pos.page)] =
     Append(Append(@, ValueItem(key, value, pos)), ValueItem(key, value, pos))]

InsertValue(d, pos, key, value) ==
  [d EXCEPT ![PageAt(d, pos.page)] = Append(@, ValueItem(key, value, pos))]

\* line 407: the blank form is opened
FillFormOpen ==
  /\ pc = "fill_form"
  /\ fdoc' = blank_pdf
  /\ filled_count' = 0
  /\ fp_idx' = 1
  /\ pc' = "fill_loop"
  /\ UNCHANGED << inputVars, layoutVars, person_data, filled_pdf, permitVars >>
  /\ UNCHANGED << summary, verifyVars, runVars >>

\* lines 410-423: one entry of field_positions.items()
FillFormStep ==
  /\ pc = "fill_loop"
  /\ fp_idx <= Len(field_positions)
  /\ LET pos == field_positions[fp_idx]
         value == FillValue(person_data, pos.key)
     IN IF FillWrites(value)
        THEN /\ fdoc' = InsertValue(fdoc, pos, pos.key, value)
             /\ filled_count' = filled_count + 1
        ELSE UNCHANGED << fdoc, filled_count >>
  /\ fp_idx' = fp_idx + 1
  /\ UNCHANGED << pc, inputVars, layoutVars, person_data, filled_pdf, permitVars >>
  /\ UNCHANGED << summary, verifyVars, runVars >>

\* lines 425-427: form_filled.pdf is saved
FillFormSave ==
  /\ pc = "fill_loop"
  /\ fp_idx > Len(field_positions)
  /\ filled_pdf' = DocSave(filled_pdf, filled_path, fdoc, filled_path)
  /\ blank_pdf' = DocSave(blank_pdf, blank_path, fdoc, filled_path)
  /\ pc' = "filled"
  /\ UNCHANGED << inputVars, doc, finalized, page_num, y, sec_idx, fld_idx, field_positions,
                  person_data, fdoc, fp_idx, filled_count, permitVars >>
  /\ UNCHANGED << summary, verifyVars, runVars >>

(***************************************************************************)
(* fill_form, lines 432-447: the verification pass                         *)
(***************************************************************************)

\* pg.get_text(): the texts drawn on the page, one per line
RECURSIVE GetText(_)
GetText(page) ==
  IF page = << >> THEN "" ELSE Head(page).text \o "\n" \o GetText(Tail(page))

\* lines 436-438: all_text += pg.get_text(), for every page
RECURSIVE AllText(_)
AllText(d) == IF d = << >> THEN "" ELSE GetText(Head(d)) \o AllText(Tail(d))

\* a in b, for two str
In(a, b) == \E i \in 0..(Len(b) - Len(a)) : SubSeq(b, i + 1, i + Len(a)) = a

\* person_data.items(): the keys of the record, in the order of the record
Items(data) == SelectSeq(KEYS, LAMBDA k : k \in DOMAIN data)

\* lines 441-447: the loop over person_data.items().  `value in all_text'
\* raises TypeError when value is not a str: the loop ends there.
RECURSIVE VerifyFrom(_, _, _, _)
VerifyFrom(keys, data, all_text, acc) ==
  IF keys = << >> THEN acc
  ELSE LET value == data[Head(keys)]
       IN IF value.t # "str" THEN [acc EXCEPT !.raised = TRUE]
          ELSE VerifyFrom(Tail(keys), data, all_text,
                          IF In(value.s, all_text)
                          THEN [acc EXCEPT !.verified = @ + 1]
                          ELSE [acc EXCEPT !.missing = Append(@, Head(keys))])

\* lines 432-456: form_filled.pdf is read back and the record is looked up
\* in its text; fill_form returns, or the TypeError ends the program
FillFormVerify ==
  /\ pc = "filled"
  /\ LET r == VerifyFrom(Items(person_data), person_data, AllText(filled_pdf),
                         [verified |-> 0, missing |-> << >>, raised |-> FALSE])
     IN /\ verified' = r.verified
        /\ missing' = r.missing
        /\ pc' = IF r.raised THEN "TypeError" ELSE "workflow_done"
  /\ UNCHANGED << inputVars, layoutVars, fillVars, permitVars, summary, total_filled, runVars >>

(***************************************************************************)
(* fill_roofing_permit.py -- discover_widgets                              *)
(***************************************************************************)

\* lines 192-198: the entry of a widget (its rect is left out)
Entry(pg, widget) ==
  [page |-> pg, field_name |-> widget.field_name, field_type |-> widget.field_type,
   value |-> widget.field_value]

\* line 186
EmptySummary ==
  [text_fields |-> << >>, checkboxes |-> << >>, radio_buttons |-> << >>, buttons |-> << >>]

\* Mutant of BucketOf: radio buttons are filed with the checkboxes.
BucketOfRadioAsCheckbox(ftype) ==
  CASE ftype = PDF_WIDGET_TYPE_TEXT -> "text_fields"
    [] ftype = PDF_WIDGET_TYPE_CHECKBOX -> "checkboxes"
    [] ftype = PDF_WIDGET_TYPE_RADIOBUTTON -> "checkboxes"
    [] ftype = PDF_WIDGET_TYPE_BUTTON -> "buttons"
    [] OTHER -> ""

\* lines 199-206: the bucket of a field type ("" when the type has none)
BucketOf(ftype) ==
  CASE ftype = PDF_WIDGET_TYPE_TEXT -> "text_fields"
    [] ftype = PDF_WIDGET_TYPE_CHECKBOX -> "checkboxes"
    [] ftype = PDF_WIDGET_TYPE_RADIOBUTTON -> "radio_buttons"
    [] ftype = PDF_WIDGET_TYPE_BUTTON -> "buttons"
    [] OTHER -> ""

AddEntry(sum, entry) ==
  IF BucketOf(entry.field_type) = "" THEN sum
  ELSE [sum EXCEPT ![BucketOf(entry.field_type)] = Append(@, entry)]

\* line 190: for widget in page.widgets()
RECURSIVE DiscoverPage(_, _, _, _)
DiscoverPage(sum, page, pg, i) ==
  IF i > Len(page) THEN sum
  ELSE DiscoverPage(AddEntry(sum, Entry(pg, page[i])), page, pg, i + 1)

\* line 188: for page_idx in range(len(doc))
RECURSIVE DiscoverFrom(_, _, _)
DiscoverFrom(sum, d, p) ==
  IF p > Len(d) THEN sum
  ELSE DiscoverFrom(DiscoverPage(sum, d[p], p - 1, 1), d, p + 1)

discover_widgets(d) == DiscoverFrom(EmptySummary, d, 1)

\* line 355: summary = discover_widgets(pdf_path)
DiscoverWidgets ==
  /\ pc = "discover_widgets"
  /\ summary' = discover_widgets(pdf)
  /\ pc' = "mock_api_fetch_project"
  /\ UNCHANGED << inputVars, layoutVars, fillVars, permitVars, verifyVars, runVars >>

(***************************************************************************)
(* fill_roofing_permit.py -- mock_api_fetch_project, fill_permit           *)
(***************************************************************************)
MockApiFetchProject ==
  /\ pc = "mock_api_fetch_project"
  /\ project_data' \in ProjectRecords
  /\ pc' = "fill_permit"
  /\ UNCHANGED << inputVars, layoutVars, fillVars, wdoc, page_idx, w_idx, text_filled,
                  checkboxes_checked, radios_selected, skipped, radio_seen, updates, out_pdf >>
  /\ UNCHANGED << summary, verifyVars, runVars >>

\* Mutant of TextBranch: push buttons are taken for text fields.
TextBranchTakesButtons(ftype) ==
  ftype \in {PDF_WIDGET_TYPE_TEXT, PDF_WIDGET_TYPE_BUTTON}

\* line 263: if ftype == 7
TextBranch(ftype) == ftype = PDF_WIDGET_TYPE_TEXT

\* line 264: project_data.get(fname)
ProjectValue(data, fname) == Get(data, fname, PyNone)

\* line 265: value is not None and value is not True and value is not False
TextFillable(value) == value.t # "none" /\ value.t # "bool"

\* line 270: the entry appended to skipped for a text field
SkippedEntry(fname) == "text:" \o fname

\* Mutant of CheckboxChecked: any truthy value checks the box.
CheckboxCheckedTruthy(data, fname) == Truthy(ProjectValue(data, fname))

\* line 273: project_data.get(fname) is True
CheckboxChecked(data, fname) == ProjectValue(data, fname) = PyBool(TRUE)

\* lines 280-281: the ordinal of this radio button in its group, and the
\* counter after it
RadioIndex(seen, group) == Get(seen, group, 0)

\* Mutant of RadioSeen: only the groups that have a policy are counted.
RadioSeenPolicyOnly(seen, group) ==
  IF group \in DOMAIN RADIO_SELECTIONS
  THEN [g \in DOMAIN seen \cup {group} |-> IF g = group THEN Get(seen, group, 0) + 1 ELSE seen[g]]
  ELSE seen

\* line 281: radio_seen[group] = idx + 1
RadioSeen(seen, group) ==
  [g \in DOMAIN seen \cup {group} |-> IF g = group THEN RadioIndex(seen, group) + 1 ELSE seen[g]]

\* Mutant of RadioSelected: the ordinal is taken 1-based.
RadioSelectedOneBased(idx, group) ==
  group \in DOMAIN RADIO_SELECTIONS /\ idx + 1 = RADIO_SELECTIONS[group]

\* lines 283-284: target_idx is not None and idx == target_idx
RadioSelected(idx, group) ==
  group \in DOMAIN RADIO_SELECTIONS /\ idx = RADIO_SELECTIONS[group]

\* widget.field_value = v; widget.update()
SetFieldValue(d, p, w, v) == [d EXCEPT ![p][w].field_value = v]

\* Mutant of NewRadioSeen: the counters of an earlier run are kept.
RadioSeenKept(seen) == seen

\* line 255: radio_seen = {}, whatever an earlier run left
NewRadioSeen(seen) == [g \in {} |-> 0]

\* lines 247-255: the input document is opened, the counters are zeroed
FillPermitOpen ==
  /\ pc = "fill_permit"
  /\ wdoc' = pdf
  /\ text_filled' = 0
  /\ checkboxes_checked' = 0
  /\ radios_selected' = 0
  /\ skipped' = << >>
  /\ radio_seen' = NewRadioSeen(radio_seen)
  /\ updates' = << >>
  /\ page_idx' = 1
  /\ w_idx' = 1
  /\ pc' = "permit_loop"
  /\ UNCHANGED << inputVars, layoutVars, fillVars, project_data, out_pdf >>
  /\ UNCHANGED << summary, verifyVars, runVars >>

\* lines 259-290: one widget of page.widgets()
FillPermitWidget ==
  /\ pc = "permit_loop"
  /\ page_idx <= Len(wdoc)
  /\ w_idx <= Len(wdoc[page_idx])
  /\ LET widget == wdoc[page_idx][w_idx]
         fname == widget.field_name
         ftype == widget.field_type
         value == ProjectValue(project_data, fname)
         idx == RadioIndex(radio_seen, fname)
         write(v) == /\ wdoc' = SetFieldValue(wdoc, page_idx, w_idx, v)
                     /\ updates' = Append(updates, << page_idx, w_idx >>)
     IN CASE TextBranch(ftype) ->
               /\ IF TextFillable(value)
                  THEN /\ write(Str(value))
                       /\ text_filled' = text_filled + 1
                       /\ UNCHANGED skipped
                  ELSE /\ skipped' = Append(skipped, SkippedEntry(fname))
                       /\ UNCHANGED << wdoc, updates, text_filled >>
               /\ UNCHANGED << checkboxes_checked, radios_selected, radio_seen >>
          [] ftype = PDF_WIDGET_TYPE_CHECKBOX ->
               /\ IF CheckboxChecked(project_data, fname)
                  THEN /\ write("Yes")
                       /\ checkboxes_checked' = checkboxes_checked + 1
                  ELSE UNCHANGED << wdoc, updates, checkboxes_checked >>
               /\ UNCHANGED << text_filled, radios_selected, skipped, radio_seen >>
          [] ftype = PDF_WIDGET_TYPE_RADIOBUTTON ->
               /\ radio_seen' = RadioSeen(radio_seen, fname)
               /\ IF RadioSelected(idx, fname)
                  THEN /\ write("Yes")
                       /\ radios_selected' = radios_selected + 1
                  ELSE UNCHANGED << wdoc, updates, radios_selected >>
               /\ UNCHANGED << text_filled, checkboxes_checked, skipped >>
          [] OTHER ->
               UNCHANGED << wdoc, updates, text_filled, checkboxes_checked,
                            radios_selected, skipped, radio_seen >>
  /\ w_idx' = w_idx + 1
  /\ UNCHANGED << pc, inputVars, layoutVars, fillVars, project_data, page_idx, out_pdf >>
  /\ UNCHANGED << summary, verifyVars, runVars >>

\* line 257: the next page
FillPermitNextPage ==
  /\ pc = "permit_loop"
  /\ page_idx <= Len(wdoc)
  /\ w_idx > Len(wdoc[page_idx])
  /\ page_idx' = page_idx + 1
  /\ w_idx' = 1
  /\ UNCHANGED << pc, inputVars, layoutVars, fillVars, project_data, wdoc, text_filled,
                  checkboxes_checked, radios_selected, skipped, radio_seen, updates, out_pdf >>
  /\ UNCHANGED << summary, verifyVars, runVars >>

\* lines 292-295: the filled document is saved, the counts are returned
FillPermitSave ==
  /\ pc = "permit_loop"
  /\ page_idx > Len(wdoc)
  /\ out_pdf' = DocSave(out_pdf, output_path, wdoc, output_path)
  /\ pdf' = DocSave(pdf, pdf_path, wdoc, output_path)
  /\ pc' = "permit_filled"
  /\ UNCHANGED << FORM_SECTIONS, page_height, layoutVars, fillVars, project_data, wdoc, page_idx, w_idx,
                  text_filled, checkboxes_checked, radios_selected, skipped, radio_seen,
                  updates >>
  /\ UNCHANGED << summary, verifyVars, runVars >>

(***************************************************************************)
(* fill_roofing_permit.py -- verify_filled                                 *)
(***************************************************************************)

\* line 310: w.field_value and w.field_value not in ("", "Off")
HoldsValue(w) == w.field_value # "" /\ w.field_value \notin {"", "Off"}

\* lines 308-311: filled_widgets[w.field_name] = w.field_value, a dict
RECURSIVE FilledWidgets(_, _)
FilledWidgets(fw, ws) ==
  IF ws = << >> THEN fw
  ELSE FilledWidgets(IF HoldsValue(Head(ws))
                     THEN DictSet(fw, Head(ws).field_name,
                                  [key |-> Head(ws).field_name, value |-> Head(ws).field_value])
                     ELSE fw,
                     Tail(ws))

\* lines 316-320
critical_keys ==
  << "Contractor's Name", "Job Address", "Master permit", "Process number",
     "System Manufacturer", "Product Approval", "Roof System Manufacturer",
     "Deck Type", "Total SF" >>

\* line 325: key in filled_widgets and filled_widgets[key]
CriticalFilled(fw, key) == key \in DictKeys(fw) /\ fw[DictIndex(fw, key)].value # ""

\* lines 302-330: the saved output is read back; verify_filled returns
VerifyFilled ==
  /\ pc = "permit_filled"
  /\ LET fw == FilledWidgets(<< >>, Flatten(out_pdf))
     IN /\ verified' = Len(SelectSeq(critical_keys, LAMBDA k : CriticalFilled(fw, k)))
        /\ missing' = SelectSeq(critical_keys, LAMBDA k : ~CriticalFilled(fw, k))
        /\ total_filled' = Len(fw)
  /\ pc' = "permit_done"
  /\ UNCHANGED << inputVars, layoutVars, fillVars, permitVars, summary, runVars >>

\* main of pdf_form_fill_workflow.py, but for the record fetched
WorkflowSteps ==
  \/ GenerateStart
  \/ SectionStart
  \/ FieldStep
  \/ SectionEnd
  \/ SignatureBlock
  \/ DrawFooters
  \/ SaveBlankForm
  \/ FillFormOpen
  \/ FillFormStep
  \/ FillFormSave
  \/ FillFormVerify

NextWorkflow == WorkflowSteps \/ MockApiFetchPerson

\* main of fill_roofing_permit.py
NextPermit ==
  \/ DiscoverWidgets
  \/ MockApiFetchProject
  \/ FillPermitOpen
  \/ FillPermitWidget
  \/ FillPermitNextPage
  \/ FillPermitSave
  \/ VerifyFilled

Next == NextWorkflow \/ NextPermit

Spec == Init /\ [][Next]_vars

(***************************************************************************)
(* Errors of the document engine.  insert_text, widget.update and doc.save *)
(* may raise; neither module has a try statement, so the exception leaves  *)
(* fill_form or fill_permit, then main, and the program ends.              *)
(***************************************************************************)

\* Mutant of Uncaught: the exception is caught and the loop goes on.
CaughtAndIgnored(p) == p

\* where the program is after an exception raised at p
Uncaught(p) == "aborted"

EngineError ==
  /\ failed' = TRUE
  /\ pc' = Uncaught(pc)
  /\ UNCHANGED << inputVars, layoutVars, fillVars, permitVars, summary, verifyVars, runs,
                  first_report >>

\* lines 416-422: page.insert_text raises
FillFormWriteFails ==
  /\ pc = "fill_loop"
  /\ fp_idx <= Len(field_positions)
  /\ FillWrites(FillValue(person_data, field_positions[fp_idx].key))
  /\ EngineError

\* line 426: doc.save raises
FillFormSaveFails ==
  /\ pc = "fill_loop"
  /\ fp_idx > Len(field_positions)
  /\ EngineError

\* lines 265-287: the widget at hand is one fill_permit updates
UpdatesWidget(widget, data, seen) ==
  CASE TextBranch(widget.field_type) -> TextFillable(ProjectValue(data, widget.field_name))
    [] widget.field_type = PDF_WIDGET_TYPE_CHECKBOX -> CheckboxChecked(data, widget.field_name)
    [] widget.field_type = PDF_WIDGET_TYPE_RADIOBUTTON ->
         RadioSelected(RadioIndex(seen, widget.field_name), widget.field_name)
    [] OTHER -> FALSE

\* lines 267, 275, 286: widget.update() raises
FillPermitWriteFails ==
  /\ pc = "permit_loop"
  /\ page_idx <= Len(wdoc)
  /\ w_idx <= Len(wdoc[page_idx])
  /\ UpdatesWidget(wdoc[page_idx][w_idx], project_data, radio_seen)
  /\ EngineError

\* line 292: doc.save raises
FillPermitSaveFails ==
  /\ pc = "permit_loop"
  /\ page_idx > Len(wdoc)
  /\ EngineError

EngineFails ==
  \/ FillFormWriteFails
  \/ FillFormSaveFails
  \/ FillPermitWriteFails
  \/ FillPermitSaveFails

\* The runs in which the engine may fail, on the source's own page height.
InitFailure == Init /\ page_height = PAGE_H

SpecFailure == InitFailure /\ [][Next \/ EngineFails]_vars

(***************************************************************************)
(* A second fill run, on a fresh copy of the same blank document with the  *)
(* same record: fill_permit or fill_form is called once more.              *)
(***************************************************************************)

\* line 295: return text_filled, checkboxes_checked, radios_selected, skipped
PermitReport ==
  [text_filled |-> text_filled, checkboxes_checked |-> checkboxes_checked,
   radios_selected |-> radios_selected, skipped |-> skipped]

\* lines 429-452: what fill_form reports
FormReport == [filled_count |-> filled_count, verified |-> verified, missing |-> missing]

FillPermitAgain ==
  /\ pc = "permit_filled"
  /\ runs = 1
  /\ first_report' = PermitReport
  /\ runs' = 2
  /\ pc' = "fill_permit"
  /\ UNCHANGED << inputVars, layoutVars, fillVars, permitVars, summary, verifyVars, failed >>

FillFormAgain ==
  /\ pc = "workflow_done"
  /\ runs = 1
  /\ first_report' = FormReport
  /\ runs' = 2
  /\ pc' = "fill_form"
  /\ UNCHANGED << inputVars, layoutVars, fillVars, permitVars, summary, verifyVars, failed >>

\* The inputs of the runs taken twice: the source's own page height, and
\* input documents of one page.
InitTwice == Init /\ page_height = PAGE_H /\ Len(pdf) <= 1

SpecTwice == InitTwice /\ [][Next \/ FillPermitAgain \/ FillFormAgain]_vars

(***************************************************************************)
(* The blank document is filled a second time, with a record fetched anew. *)
(***************************************************************************)
RefillPermit ==
  /\ pc = "permit_filled"
  /\ runs = 1
  /\ first_report' = PermitReport
  /\ runs' = 2
  /\ pc' = "mock_api_fetch_project"
  /\ UNCHANGED << inputVars, layoutVars, fillVars, permitVars, summary, verifyVars, failed >>

RefillForm ==
  /\ pc = "workflow_done"
  /\ runs = 1
  /\ first_report' = FormReport
  /\ runs' = 2
  /\ pc' = "mock_api_fetch_person"
  /\ UNCHANGED << inputVars, layoutVars, fillVars, permitVars, summary, verifyVars, failed >>

SpecRefill == InitTwice /\ [][Next \/ RefillPermit \/ RefillForm]_vars

(***************************************************************************)
(* The workflow on records of up to MaxWideRecordKeys keys, on the         *)
(* source's own page height.                                               *)
(***************************************************************************)
WideRecords ==
  UNION {[S -> RecordValues] : S \in SUBSET {KEYS[i] : i \in 1..MaxWideRecordKeys}}

MockApiFetchWidePerson == FetchPerson(WideRecords)

InitVerify == InitWorkflow /\ page_height = PAGE_H

SpecVerify == InitVerify /\ [][WorkflowSteps \/ MockApiFetchWidePerson]_vars

(***************************************************************************)
(* The workflow on a schema that declares a field key twice.               *)
(***************************************************************************)

\* The schema of the given section sizes in which field j (in declaration
\* order) is declared with the key of field i.
DuplicateSchemaOf(sizes, i, j) ==
  [sec \in 1..Len(sizes) |->
     [title |-> TITLES[sec],
      fields |-> [f \in 1..sizes[sec] |->
                    IF SumTo(sizes, sec - 1) + f = j
                    THEN [key |-> KEYS[i], label |-> LABELS[j]]
                    ELSE Field(SumTo(sizes, sec - 1) + f)]]]

DuplicateKeySchemas ==
  UNION {UNION {{DuplicateSchemaOf(sizes, ij[1], ij[2]) :
                   ij \in {p \in (1..SumTo(sizes, n)) \X (1..SumTo(sizes, n)) : p[1] < p[2]}} :
                sizes \in [1..n -> 0..MaxFields]} :
         n \in 1..MaxSections}

InitDuplicateKeys ==
  /\ pc = "generate_blank_form"
  /\ FORM_SECTIONS \in DuplicateKeySchemas
  /\ page_height \in PageHeights
  /\ pdf = NoDoc
  /\ InitState

SpecDuplicateKeys == InitDuplicateKeys /\ [][NextWorkflow]_vars

(***************************************************************************)
(* The workflow on a page too short for one row: between the page header   *)
(* and the bottom limit there is less than row_h.                          *)
(***************************************************************************)
DegenerateHeights ==
  {HEADER_BOTTOM + FOOTER_RESERVE + MARGIN_B + HeightStep * k : k \in 0..1}

InitDegenerate ==
  /\ pc = "generate_blank_form"
  /\ FORM_SECTIONS \in Schemas
  /\ page_height \in DegenerateHeights
  /\ pdf = NoDoc
  /\ InitState

SpecDegenerate == InitDegenerate /\ [][NextWorkflow]_vars

(***************************************************************************)
(* generate_blank_form alone, on the page heights of Spec and on two       *)
(* taller pages on which a section of two rows fits as a whole.  The       *)
(* function is one sequential run: each of its steps is taken when it can  *)
(* be.                                                                     *)
(***************************************************************************)
MediumHeights == {MinPageHeight + HeightStep * (MaxHeightSteps + k) : k \in 1..2}

LayoutSteps ==
  \/ GenerateStart
  \/ SectionStart
  \/ FieldStep
  \/ SectionEnd
  \/ SignatureBlock
  \/ DrawFooters
  \/ SaveBlankForm

InitLayout ==
  /\ pc = "generate_blank_form"
  /\ FORM_SECTIONS \in Schemas
  /\ page_height \in PageHeights \cup MediumHeights
  /\ pdf = NoDoc
  /\ InitState

SpecLayout == InitLayout /\ [][LayoutSteps]_vars /\ WF_vars(LayoutSteps)

(***************************************************************************)
(* Notions the properties are stated with.                                 *)
(***************************************************************************)

\* The declared fields of a schema, in schema order.
RECURSIVE FlatFields(_)
FlatFields(sections) ==
  IF sections = << >> THEN << >>
  ELSE Head(sections).fields \o FlatFields(Tail(sections))

FlatKeys(sections) == [i \in DOMAIN FlatFields(sections) |-> FlatFields(sections)[i].key]
DeclaredKeys(sections) == {FlatKeys(sections)[i] : i \in DOMAIN FlatKeys(sections)}
DeclaredCount(sections) == Len(FlatFields(sections))

\* generate_blank_form has returned.
LayoutFinished ==
  pc \in {"mock_api_fetch_person", "fill_form", "fill_loop", "filled", "workflow_done",
          "TypeError"}

\* The keys of the field rows drawn on the document, page by page.
RowKeysOf(page) == SelectSeq(page, LAMBDA it : it.op = "row")
RowKeys(d) ==
  LET rows == Flatten([p \in DOMAIN d |-> RowKeysOf(d[p])])
  IN [i \in DOMAIN rows |-> rows[i].key]

\* Page p of d opens with a continuation header: it was started by a row
\* that did not fit on the page before.
ContinuationPage(d, p) ==
  /\ Len(d[p]) >= 3
  /\ d[p][2].op = "section"
  /\ \E i \in DOMAIN TITLES : d[p][2].text = ContinuationTitle(TITLES[i])
  /\ d[p][3].op = "row"

\* The number of rows that fit below a section header on a fresh page.
RowsPerPage(h) == (BottomLimit(h) - DrawSectionHeader(HEADER_BOTTOM)) \div row_h

\* fill_permit has returned.
PermitFinished == pc \in {"permit_filled", "permit_done"}

\* The widgets of the input document in discovery order (page order, then
\* on-page order), and the same widgets in the saved output.
InWidgets == Flatten(pdf)
OutWidgets == Flatten(out_pdf)

IsRadio(w) == w.field_type = PDF_WIDGET_TYPE_RADIOBUTTON
IsCheckbox(w) == w.field_type = PDF_WIDGET_TYPE_CHECKBOX
IsText(w) == w.field_type = PDF_WIDGET_TYPE_TEXT
IsButton(w) == w.field_type = PDF_WIDGET_TYPE_BUTTON

\* The radio groups of the input document, the members of a group, and the
\* 0-based ordinal of member i in its group.
RadioGroups == {InWidgets[i].field_name : i \in {j \in DOMAIN InWidgets : IsRadio(InWidgets[j])}}
Members(g) == {i \in DOMAIN InWidgets : IsRadio(InWidgets[i]) /\ InWidgets[i].field_name = g}
Ordinal(i) == Cardinality({j \in Members(InWidgets[i].field_name) : j < i})
InRange(g) ==
  /\ g \in DOMAIN RADIO_SELECTIONS
  /\ 0 <= RADIO_SELECTIONS[g]
  /\ RADIO_SELECTIONS[g] < Cardinality(Members(g))

\* The number of widgets fill_permit has gone through.
RECURSIVE LenUpTo(_, _)
LenUpTo(pages, n) == IF n = 0 THEN 0 ELSE Len(pages[n]) + LenUpTo(pages, n - 1)
Processed ==
  IF pc = "permit_loop" THEN LenUpTo(wdoc, page_idx - 1) + w_idx - 1
  ELSE IF PermitFinished THEN Len(InWidgets) ELSE 0

\* A record entry that calls for text: present, not a bool, not empty.
IsText_Entry(data, key) ==
  key \in DOMAIN data /\ data[key].t = "str" /\ data[key].s # ""

(***************************************************************************)
(* Properties.                                                             *)
(***************************************************************************)

\* C1: when generate_blank_form has finished, the registry has exactly one
\* entry per declared field: its keys are the declared keys, no more and no
\* fewer, and it has as many entries as fields are declared.
C1_RegistryComplete ==
  LayoutFinished =>
    /\ DictKeys(field_positions) = DeclaredKeys(FORM_SECTIONS)
    /\ Len(field_positions) = DeclaredCount(FORM_SECTIONS)
    /\ \A i, j \in DOMAIN field_positions :
         field_positions[i].key = field_positions[j].key => i = j

\* C1 happens: a layout of three fields or more over several pages is finished.
C1_Witness ==
  /\ LayoutFinished
  /\ DeclaredCount(FORM_SECTIONS) >= 3
  /\ Len(FORM_SECTIONS) >= 2
  /\ Len(doc) >= 2

\* C2: no y recorded in the registry exceeds
\* page_height - bottom_margin - footer_reserve, also for a row placed right
\* after a page break and its continuation header.
C2_RowsAboveLimit ==
  \A i \in DOMAIN field_positions :
    field_positions[i].y <= page_height - MARGIN_B - FOOTER_RESERVE

\* C2 happens: a row was placed right after a page break and continuation
\* header, and its position is in the registry.
C2_Witness ==
  \E p \in DOMAIN doc :
    /\ ContinuationPage(doc, p)
    /\ \E i \in DOMAIN field_positions :
         /\ field_positions[i].key = doc[p][3].key
         /\ field_positions[i].y = doc[p][3].y
         /\ field_positions[i].page = p - 1

\* C3 (Scenario A): one section of 3 fields, on a page that fits exactly 2
\* rows after the section header, is laid out on exactly 2 pages, the first
\* two fields with page_index 0 and the third with page_index 1.
C3_ScenarioA ==
  ( /\ LayoutFinished
    /\ Len(FORM_SECTIONS) = 1
    /\ Len(FORM_SECTIONS[1].fields) = 3
    /\ RowsPerPage(page_height) = 2 )
  => /\ Len(blank_pdf) = 2
     /\ Len(field_positions) = 3
     /\ field_positions[1].page = 0
     /\ field_positions[2].page = 0
     /\ field_positions[3].page = 1

\* C4: every declared field row is drawn exactly once and in schema order,
\* whatever page breaks occur: at any moment the rows drawn are the first
\* fields of the schema, and all of them once the layout has finished.
C4_RowsOnceInOrder ==
  /\ Len(RowKeys(doc)) <= DeclaredCount(FORM_SECTIONS)
  /\ RowKeys(doc) = SubSeq(FlatKeys(FORM_SECTIONS), 1, Len(RowKeys(doc)))
  /\ LayoutFinished => RowKeys(doc) = FlatKeys(FORM_SECTIONS)
  /\ LayoutFinished => RowKeys(blank_pdf) = FlatKeys(FORM_SECTIONS)

\* C4 happens: a layout has finished in which a row overflowed the page and
\* was continued on the next one.
C4_Witness ==
  /\ LayoutFinished
  /\ \E p \in DOMAIN doc : ContinuationPage(doc, p) /\ p < Len(doc)

\* C5: the page_index of every registry entry is the 0-based index of the
\* page on which the field's row was drawn, and no entry carries the
\* placeholder page index.
C5_PageIndexResolved ==
  \A i \in DOMAIN field_positions :
    LET e == field_positions[i] IN
      /\ e.page # PLACEHOLDER_PAGE
      /\ e.page \in 0..(Len(doc) - 1)
      /\ \E k \in DOMAIN doc[e.page + 1] :
           LET it == doc[e.page + 1][k] IN
             it.op = "row" /\ it.key = e.key /\ it.y = e.y
      /\ \A p \in DOMAIN doc : \A k \in DOMAIN doc[p] :
           (doc[p][k].op = "row" /\ doc[p][k].key = e.key) => p = e.page + 1

\* C5 happens: the registry is read by fill_form and holds fields of the
\* first page and of a later page.
C5_Witness ==
  /\ pc = "fill_loop"
  /\ \E i, j \in DOMAIN field_positions :
       field_positions[i].page = 0 /\ field_positions[j].page >= 2

\* C6: after fill_permit, in every radio group whose target ordinal is within
\* [0, member_count) exactly the member at that 0-based ordinal in discovery
\* order is selected and the others are unset; in a group whose target is out
\* of that range (or that has no target) no member is selected.
C6_RadioOrdinal ==
  PermitFinished =>
    /\ Len(OutWidgets) = Len(InWidgets)
    /\ \A g \in RadioGroups : \A i \in Members(g) :
         OutWidgets[i].field_value =
           IF InRange(g) /\ Ordinal(i) = RADIO_SELECTIONS[g] THEN "Yes" ELSE "Off"
    /\ radios_selected = Cardinality({g \in RadioGroups : InRange(g)})

\* C6 happens: a group of two members, one on each page, had its second
\* member selected (target ordinal 1) and its first left unset.
C6_Witness ==
  /\ PermitFinished
  /\ Len(pdf) = 2
  /\ Cardinality(Members("Group8")) = 2
  /\ \E i, j \in Members("Group8") :
       /\ i < j
       /\ Len(pdf[1]) = i
       /\ OutWidgets[i].field_value = "Off"
       /\ OutWidgets[j].field_value = "Yes"

\* C7 (Scenario C): a radio group whose target ordinal is outside its member
\* range gets no member selected, and the report returned to the caller
\* names the group as unresolved.
C7_UnresolvedReported ==
  PermitFinished =>
    \A g \in RadioGroups :
      (g \in DOMAIN RADIO_SELECTIONS /\ ~InRange(g)) =>
        /\ \A i \in Members(g) : OutWidgets[i].field_value = "Off"
        /\ \E k \in DOMAIN skipped : skipped[k] \in {g, "radio:" \o g}

\* C8: the skipped list of the report holds exactly the keys of the
\* non-Button controls that have no entry in the record, and none of these
\* controls is written.
C8_SkippedExact ==
  PermitFinished =>
    LET absent == SelectSeq(InWidgets,
                    LAMBDA w : ~IsButton(w) /\ w.field_name \notin DOMAIN project_data)
    IN /\ skipped = [k \in DOMAIN absent |-> absent[k].field_name]
       /\ \A i \in DOMAIN InWidgets :
            (IsText(InWidgets[i]) /\ InWidgets[i].field_name \notin DOMAIN project_data)
              => OutWidgets[i] = InWidgets[i]

\* C9: every Checkbox whose name maps to True in the record is set to "Yes",
\* and each of them adds exactly 1 to the checked counter: at any moment the
\* counter is the number of such controls gone through, and at the end the
\* number of such controls of the document.
C9_CheckboxCount ==
  (pc = "permit_loop" \/ PermitFinished) =>
    LET hit == {i \in DOMAIN InWidgets :
                  /\ IsCheckbox(InWidgets[i])
                  /\ InWidgets[i].field_name \in DOMAIN project_data
                  /\ project_data[InWidgets[i].field_name] = PyBool(TRUE)}
    IN /\ checkboxes_checked = Cardinality({i \in hit : i <= Processed})
       /\ \A i \in hit : i <= Processed => Flatten(wdoc)[i].field_value = "Yes"
       /\ PermitFinished => \A i \in hit : OutWidgets[i].field_value = "Yes"

\* C9 happens: two checkboxes that map to True were filled, on two pages.
C9_Witness ==
  /\ PermitFinished
  /\ checkboxes_checked = 2
  /\ Len(out_pdf) = 2
  /\ \A p \in DOMAIN out_pdf : \E k \in DOMAIN out_pdf[p] :
       IsCheckbox(out_pdf[p][k]) /\ out_pdf[p][k].field_value = "Yes"

\* C10: text is written, and the filled counter incremented, only for a
\* record entry that is not a bool and not empty, in fill_form and in
\* fill_permit alike.
C10_TextOnlyForText ==
  /\ pc = "filled" =>
       /\ \A p \in DOMAIN filled_pdf : \A k \in DOMAIN filled_pdf[p] :
            filled_pdf[p][k].op = "value" => IsText_Entry(person_data, filled_pdf[p][k].key)
       /\ filled_count =
            Cardinality({i \in DOMAIN field_positions :
                           IsText_Entry(person_data, field_positions[i].key)})
  /\ PermitFinished =>
       /\ \A u \in DOMAIN updates :
            LET w == pdf[updates[u][1]][updates[u][2]] IN
              IsText(w) => IsText_Entry(project_data, w.field_name)
       /\ text_filled =
            Cardinality({i \in DOMAIN InWidgets :
                           IsText(InWidgets[i])
                           /\ IsText_Entry(project_data, InWidgets[i].field_name)})

\* The widgets of the input document that fill_permit has gone through.
Done == SubSeq(InWidgets, 1, Processed)
CountOf(ws, T(_)) == Cardinality({i \in DOMAIN ws : T(ws[i])})

\* C11: fill_permit never writes a push button, whatever the record holds
\* under its name: the button keeps its value, widget.update() is never
\* called on it, no counter moves for it (each counter is bounded by the
\* widgets of its own kind gone through) and skipped has no entry for it
\* (skipped has one entry per unfilled text field, and no other).
C11_ButtonNeverWritten ==
  pc \in {"permit_loop", "permit_filled", "permit_done"} =>
    /\ \A p \in DOMAIN wdoc : \A i \in DOMAIN wdoc[p] :
         IsButton(pdf[p][i]) => wdoc[p][i] = pdf[p][i]
    /\ \A u \in DOMAIN updates : ~IsButton(pdf[updates[u][1]][updates[u][2]])
    /\ text_filled + Len(skipped) = CountOf(Done, IsText)
    /\ checkboxes_checked <= CountOf(Done, IsCheckbox)
    /\ radios_selected <= CountOf(Done, IsRadio)
    /\ \A k \in DOMAIN skipped :
         \E i \in DOMAIN Done : IsText(Done[i]) /\ skipped[k] = SkippedEntry(Done[i].field_name)
    /\ PermitFinished =>
         \A p \in DOMAIN out_pdf : \A i \in DOMAIN out_pdf[p] :
           IsButton(pdf[p][i]) => out_pdf[p][i] = pdf[p][i]

\* A finished run on a document with a text field that was filled and a
\* push button under whose name the record holds a text.
C11_Witness ==
  /\ PermitFinished
  /\ text_filled = 1
  /\ \E i \in DOMAIN InWidgets :
       /\ IsButton(InWidgets[i])
       /\ IsText_Entry(project_data, InWidgets[i].field_name)
       /\ OutWidgets[i] = InWidgets[i]

\* The values drawn on a document by insert_text, page by page.
ValueItemsOf(page) == SelectSeq(page, LAMBDA it : it.op = "value")
ValueItems(d) == Flatten([p \in DOMAIN d |-> ValueItemsOf(d[p])])

FillFormRunning == pc \in {"fill_loop", "filled", "workflow_done", "TypeError"}
FillPermitRunning == pc \in {"permit_loop", "permit_filled", "permit_done"}

\* C12: one fill run issues exactly one write per filled (target, value)
\* pair.  Overlay path: the values drawn are as many as filled_count, no key
\* is drawn twice, and each drawn text is the stringified record value of its
\* key.  Control path: the update() calls are as many as the three counters
\* together, and no widget is updated twice.  The saved output holds exactly
\* these writes.
C12_OneWritePerFill ==
  /\ FillFormRunning =>
       LET vs == ValueItems(fdoc)
       IN /\ Len(vs) = filled_count
          /\ \A i, j \in DOMAIN vs : vs[i].key = vs[j].key => i = j
          /\ \A i \in DOMAIN vs :
               /\ vs[i].key \in DOMAIN person_data
               /\ vs[i].text = Str(person_data[vs[i].key])
          /\ pc # "fill_loop" => filled_pdf = fdoc
  /\ FillPermitRunning =>
       /\ Len(updates) = text_filled + checkboxes_checked + radios_selected
       /\ \A i, j \in DOMAIN updates : updates[i] = updates[j] => i = j
       /\ \A p \in DOMAIN wdoc : \A i \in DOMAIN wdoc[p] :
            wdoc[p][i] # pdf[p][i] => \E u \in DOMAIN updates : updates[u] = << p, i >>
       /\ pc # "permit_loop" => out_pdf = wdoc

\* A finished control-path run that wrote two widgets: a text field and a
\* radio button.
C12_Witness ==
  /\ PermitFinished
  /\ Len(updates) = 2
  /\ text_filled = 1
  /\ radios_selected = 1

\* C13: when the document engine rejects a write or the save, the run ends
\* there: the program is aborted (no step of either fill loop is enabled
\* any more, so no later field is written and nothing is retried), no filled
\* output is saved, and nothing is returned or verified.
C13_AbortOnEngineError ==
  failed =>
    /\ pc = "aborted"
    /\ ~ENABLED (Next \/ EngineFails)
    /\ filled_pdf = NoDoc
    /\ out_pdf = NoDoc
    /\ first_report = NoReport
    /\ verified = 0 /\ missing = << >> /\ total_filled = 0

\* The engine rejected a write of the control path after an earlier write
\* had gone through.
C13_Witness ==
  /\ failed
  /\ Len(updates) = 1
  /\ wdoc # pdf
  /\ page_idx <= Len(wdoc)

\* The entries of the widgets of a document in discovery order: page by
\* page, and on a page in the order of page.widgets().
EntriesInOrder(d) ==
  Flatten([p \in DOMAIN d |-> [i \in DOMAIN d[p] |-> Entry(p - 1, d[p][i])]])

\* The kind of widget each bucket of the summary is for.
BucketKind ==
  [text_fields |-> PDF_WIDGET_TYPE_TEXT, checkboxes |-> PDF_WIDGET_TYPE_CHECKBOX,
   radio_buttons |-> PDF_WIDGET_TYPE_RADIOBUTTON, buttons |-> PDF_WIDGET_TYPE_BUTTON]

Discovered == summary # NoSummary

\* C14: discover_widgets returns four buckets; each bucket holds exactly the
\* widgets of its kind, each once, in discovery order (so the buckets are
\* pairwise disjoint, every text field, checkbox, radio button and push
\* button is in exactly the bucket of its kind, and a bucket is ordered by
\* page index, then by on-page order).
C14_BucketsByKind ==
  Discovered =>
    /\ DOMAIN summary = DOMAIN BucketKind
    /\ \A b \in DOMAIN summary :
         /\ summary[b] =
              SelectSeq(EntriesInOrder(pdf), LAMBDA e : e.field_type = BucketKind[b])
         /\ \A i, j \in DOMAIN summary[b] : i <= j => summary[b][i].page <= summary[b][j].page
    /\ \A b, c \in DOMAIN summary :
         b # c => \A i \in DOMAIN summary[b] : \A j \in DOMAIN summary[c] :
                    summary[b][i] # summary[c][j]
    /\ Len(summary.text_fields) + Len(summary.checkboxes) + Len(summary.radio_buttons)
         + Len(summary.buttons) = Len(InWidgets)

\* A summary with two radio buttons of two pages in one bucket, in page
\* order.
C14_Witness ==
  /\ Discovered
  /\ Len(summary.radio_buttons) = 2
  /\ summary.radio_buttons[1].page = 0
  /\ summary.radio_buttons[2].page = 1
  /\ summary.radio_buttons[1].field_name # summary.radio_buttons[2].field_name

\* fill_form's verification pass is over: it has finished or has raised.
VerificationOver == pc \in {"workflow_done", "TypeError"}

\* The keys of the record entries that hold a text and are in the registry.
RoundTripKeys ==
  {k \in DOMAIN person_data : IsText_Entry(person_data, k) /\ k \in DictKeys(field_positions)}

MissingKeys == {missing[i] : i \in DOMAIN missing}

\* The verification loop has gone through key k of the record: each entry
\* gone through was either counted as verified or appended to missing.
Position(k) == CHOOSE i \in DOMAIN Items(person_data) : Items(person_data)[i] = k
GoneThrough(k) == Position(k) <= verified + Len(missing)

\* C15: round trip of the overlay path.  When the verification pass is
\* over, every record entry with a non-empty text whose key is in the
\* registry is found in the text of the filled document, and the pass has
\* counted its key as verified: it has gone through the key and has not
\* put it in missing.
C15_RoundTrip ==
  VerificationOver =>
    \A k \in RoundTripKeys :
      /\ In(person_data[k].s, AllText(filled_pdf))
      /\ GoneThrough(k)
      /\ k \notin MissingKeys

\* verify_filled has returned.
PermitVerified == pc = "permit_done"

\* The record entries with a non-empty value, and whether a control of the
\* saved output named k holds the stringified record value of k.
NonEmptyEntries == {k \in DOMAIN project_data : project_data[k] # PyStr("")}
ControlHolds(k) ==
  \E i \in DOMAIN OutWidgets :
    /\ OutWidgets[i].field_name = k
    /\ OutWidgets[i].field_value = Str(project_data[k])

\* C16: the verification of the control path goes through every record
\* entry with a non-empty value: the keys whose control holds exactly the
\* stringified record value are counted as verified, and the other keys,
\* and no more, are reported missing.
C16_VerifiesRecordValues ==
  PermitVerified =>
    /\ verified = Cardinality({k \in NonEmptyEntries : ControlHolds(k)})
    /\ MissingKeys = {k \in NonEmptyEntries : ~ControlHolds(k)}

\* The value of key k of the record is a text found in the filled document.
Found(k) == person_data[k].t = "str" /\ In(person_data[k].s, AllText(filled_pdf))

\* C17: the verification pass never aborts the pipeline.  Whatever the
\* record holds (absent keys, bools, texts), the pass of fill_form runs to
\* completion and fill_form returns; it has then gone through the whole
\* record and every key whose value it did not find is in missing.
C17_VerificationNeverAborts ==
  VerificationOver =>
    /\ pc = "workflow_done"
    /\ verified + Len(missing) = Cardinality(DOMAIN person_data)
    /\ \A k \in DOMAIN person_data : ~Found(k) => k \in MissingKeys

\* C18: a second fill run on a fresh copy of the same blank document, with
\* the same record and the same radio policy, reports what the first run
\* reported: the counters and the skipped list of fill_permit (the radio
\* counters of the first run do not carry over), and the counts and the
\* missing list of fill_form.
C18_SecondRunAgrees ==
  runs = 2 =>
    /\ PermitFinished => PermitReport = first_report
    /\ pc = "workflow_done" => FormReport = first_report

\* The second run of fill_permit has finished on a document with two radio
\* buttons of the group whose second member is selected.
C18_Witness ==
  /\ runs = 2
  /\ pc = "permit_filled"
  /\ radios_selected = 1
  /\ InWidgets = << Widget("Group8", PDF_WIDGET_TYPE_RADIOBUTTON, "Off"),
                    Widget("Group8", PDF_WIDGET_TYPE_RADIOBUTTON, "Off") >>

\* The schema declares some field key more than once.
HasDuplicateKeys(sections) ==
  \E i, j \in DOMAIN FlatKeys(sections) :
    i # j /\ FlatKeys(sections)[i] = FlatKeys(sections)[j]

\* C19: a schema that declares a field key more than once is rejected:
\* generate_blank_form does not finish on it, no registry is returned and
\* form_blank.pdf is not saved.
C19_DuplicateKeyRejected ==
  HasDuplicateKeys(FORM_SECTIONS) => ~LayoutFinished /\ blank_pdf = NoDoc

\* One row is higher than the page is between its header and the bottom
\* limit.
Degenerate(h) == row_h > BottomLimit(h) - HEADER_BOTTOM

\* C20: on a page too short for a single row, generate_blank_form fails
\* instead of placing a row: no row is drawn, no position is recorded, and
\* a layout that has a row to place does not finish.
C20_DegenerateRejected ==
  Degenerate(page_height) =>
    /\ field_positions = << >>
    /\ RowKeys(doc) = << >>
    /\ DeclaredCount(FORM_SECTIONS) > 0 => ~LayoutFinished

\* The footers drawn on a page, and the states in which the footer pass is
\* over.
FootersOf(page) == SelectSeq(page, LAMBDA it : it.op = "footer")
FootersDrawn == pc = "save_blank" \/ LayoutFinished

\* C21: the footers are drawn in a second pass, after the last page has
\* been finalized.  Until then no page has a footer; from then on every
\* page is finalized and has exactly one footer, the footer of the page at
\* index i (0-based) reads "Page i+1 of N", and N is the page count of the
\* document, which is the page count of the saved form.
C21_FootersSecondPass ==
  /\ ~FootersDrawn => \A p \in DOMAIN doc : FootersOf(doc[p]) = << >>
  /\ FootersDrawn =>
       /\ finalized = DOMAIN doc
       /\ \A p \in DOMAIN doc :
            /\ Len(FootersOf(doc[p])) = 1
            /\ FootersOf(doc[p])[1].text = "Page " \o NUM[p] \o " of " \o NUM[Len(doc)]
            /\ doc[p][Len(doc[p])].op = "footer"
  /\ LayoutFinished => blank_pdf = doc

\* The footers of a document of three pages have been drawn.
C21_Witness ==
  /\ FootersDrawn
  /\ Len(doc) = 3
  /\ FootersOf(doc[3])[1].text = "Page 3 of 3"

\* The space of a section header with the first two rows of its section (or
\* with all rows, if they are fewer), with the slack the source adds.
HeaderAndTwoRows(section) ==
  band_h + BAND_GAP
    + (IF Len(section.fields) < 2 THEN Len(section.fields) ELSE 2) * row_h + SECTION_SLACK

\* C22: the page break before a section header is decided by the header
\* and the first two rows only: when these fit below the cursor, the step
\* that draws the section header stays on the current page, however many
\* fields the section has.
C22_BreakByHeaderAndTwoRows ==
  [][ ( /\ pc = "section"
        /\ pc' = "field"
        /\ y + HeaderAndTwoRows(FORM_SECTIONS[sec_idx]) <= BottomLimit(page_height) )
      => page_num' = page_num ]_vars

\* A section header band with the title of a section, and one with that
\* title and the continuation suffix.
IsOriginalHeader(it) == it.op = "section" /\ \E i \in DOMAIN TITLES : it.text = TITLES[i]
IsContinuation(it) ==
  it.op = "section" /\ \E i \in DOMAIN TITLES : it.text = TITLES[i] \o " (cont.)"

\* The section that declares key k.
SectionOfKey(k) ==
  CHOOSE n \in DOMAIN FORM_SECTIONS :
    \E f \in DOMAIN FORM_SECTIONS[n].fields : FORM_SECTIONS[n].fields[f].key = k

\* The places of the original header of section n on the document.
OriginalHeaders(n) ==
  {pi \in UNION {{<< p, i >> : i \in DOMAIN doc[p]} : p \in DOMAIN doc} :
     doc[pi[1]][pi[2]].op = "section" /\ doc[pi[1]][pi[2]].text = FORM_SECTIONS[n].title}

\* C23: a page break triggered by a field row opens the new page with the
\* section header redrawn right below the page header (cursor reset), with
\* the title of the row's section plus " (cont.)", and the row right below
\* it; a page break before a section's own header gives no continuation
\* header.  On the document: a continuation header is only ever the first
\* thing below the page header of a page after the first, is followed at
\* once by a row of the section it names, whose original header is on an
\* earlier page; the original header of a section is drawn once; and the
\* first row of every page stands right below a header of its section.
C23_ContinuationHeader ==
  /\ \A p \in DOMAIN doc : \A i \in DOMAIN doc[p] :
       IsContinuation(doc[p][i]) =>
         /\ p >= 2 /\ i = 2
         /\ doc[p][i].y = HEADER_BOTTOM
         /\ Len(doc[p]) >= 3
         /\ doc[p][3].op = "row"
         /\ doc[p][3].y = HEADER_BOTTOM + band_h + BAND_GAP + 14
         /\ doc[p][i].text = FORM_SECTIONS[SectionOfKey(doc[p][3].key)].title \o " (cont.)"
         /\ \E pi \in OriginalHeaders(SectionOfKey(doc[p][3].key)) : pi[1] < p
  /\ \A n \in DOMAIN FORM_SECTIONS : Cardinality(OriginalHeaders(n)) <= 1
  /\ \A p \in DOMAIN doc : \A i \in DOMAIN doc[p] :
       (doc[p][i].op = "row" /\ \A j \in 1..(i - 1) : doc[p][j].op # "row") =>
         /\ i >= 3
         /\ \/ doc[p][i - 1].text = FORM_SECTIONS[SectionOfKey(doc[p][i].key)].title
            \/ doc[p][i - 1].text =
                 FORM_SECTIONS[SectionOfKey(doc[p][i].key)].title \o " (cont.)"
         /\ doc[p][i - 1].op = "section"
         /\ IsOriginalHeader(doc[p][i - 1]) =>
              doc[p][i].key = FORM_SECTIONS[SectionOfKey(doc[p][i].key)].fields[1].key

\* A layout in which one page was opened by a row (continuation header) and
\* a later one by a section header.
C23_Witness ==
  /\ LayoutFinished
  /\ \E p \in DOMAIN doc : \E q \in DOMAIN doc :
       /\ 2 <= p /\ p < q
       /\ IsContinuation(doc[p][2])
       /\ IsOriginalHeader(doc[q][2])

\* C24: a field row that would be the first field row on its page never
\* triggers a page break; only a row that follows another row on the same
\* page can close the page.  On the document: every page opened by a row
\* (it starts with a continuation header) follows a page that holds a row.
C24_FirstRowAlwaysPlaced ==
  \A p \in DOMAIN doc :
    (p >= 2 /\ Len(doc[p]) >= 2 /\ IsContinuation(doc[p][2])) =>
      \E i \in DOMAIN doc[p - 1] : doc[p - 1][i].op = "row"

\* C25: in fill_permit the counter of a radio group is incremented once for
\* every Radio control of that group, selected or not, with or without a
\* policy entry; the counters are kept per group name, start at zero and are
\* not reset between pages.  At every point of the run the counters are
\* exactly the groups of the Radio controls gone through, each with the
\* number of its controls gone through, and the index the next Radio control
\* is compared with is its position among the same-named Radio controls of
\* the whole document in discovery order.
C25_RadioCounterPerControl ==
  FillPermitRunning =>
    LET done == Done
        radios(g) == {i \in DOMAIN done : IsRadio(done[i]) /\ done[i].field_name = g}
    IN /\ DOMAIN radio_seen = {done[i].field_name : i \in {j \in DOMAIN done : IsRadio(done[j])}}
       /\ \A g \in DOMAIN radio_seen : radio_seen[g] = Cardinality(radios(g))
       /\ (pc = "permit_loop" /\ page_idx <= Len(wdoc) /\ w_idx <= Len(wdoc[page_idx])
             /\ IsRadio(wdoc[page_idx][w_idx])) =>
            RadioIndex(radio_seen, wdoc[page_idx][w_idx].field_name) = Ordinal(Len(done) + 1)

\* The run is at the second page, whose Radio control belongs to a group
\* without a policy entry that already counted its unselected first member
\* on the first page.
C25_Witness ==
  /\ pc = "permit_loop"
  /\ Len(wdoc) = 2 /\ page_idx = 2 /\ w_idx = 1
  /\ Len(wdoc[1]) = 1 /\ Len(wdoc[2]) = 1
  /\ wdoc[1][1] = Widget("Group12", PDF_WIDGET_TYPE_RADIOBUTTON, "Off")
  /\ wdoc[2][1] = Widget("Group12", PDF_WIDGET_TYPE_RADIOBUTTON, "Off")
  /\ radio_seen = [g \in {"Group12"} |-> 1]
  /\ radios_selected = 0

\* C26: a fill run never modifies its input document file.  fill_form and
\* fill_permit save the result to a separate output path only: no step
\* changes the permit's input file or, once generate_blank_form has saved
\* it, the blank form; so a run that follows another, with a record fetched
\* anew, opens the blank document again, with no value on it.
C26_InputFileUntouched ==
  [][ /\ pdf' = pdf
      /\ blank_pdf # NoDoc => blank_pdf' = blank_pdf
      /\ (pc = "fill_permit" /\ pc' = "permit_loop") =>
           /\ wdoc' = pdf
           /\ \A p \in DOMAIN wdoc' : \A i \in DOMAIN wdoc'[p] : wdoc'[p][i] \in BlankWidgets
      /\ (pc = "fill_form" /\ pc' = "fill_loop") =>
           /\ fdoc' = blank_pdf
           /\ ValueItems(fdoc') = << >> ]_vars

\* The second run has filled the text field that the first run, on another
\* record, had left empty; the input file still holds the blank field.
C26_Witness ==
  /\ runs = 2
  /\ pc = "permit_filled"
  /\ first_report # NoReport
  /\ first_report.text_filled = 0
  /\ text_filled = 1
  /\ pdf = << << Widget("Master permit", PDF_WIDGET_TYPE_TEXT, "") >> >>
  /\ out_pdf = << << Widget("Master permit", PDF_WIDGET_TYPE_TEXT, "MP-2024-05821") >> >>

\* Position a of the registry lies before position b: on an earlier page,
\* or higher up on the same page.
Before(a, b) == a.page < b.page \/ (a.page = b.page /\ a.y < b.y)

\* C27: the registry positions are strictly increasing in schema order: the
\* entries are the declared fields in schema order, and of any two entries
\* the earlier one has the lexicographically smaller (page_index, y), so the
\* page indices never decrease and no two fields share a page and a y.
C27_PositionsIncrease ==
  /\ \A i \in DOMAIN field_positions :
       i <= DeclaredCount(FORM_SECTIONS) /\ field_positions[i].key = FlatKeys(FORM_SECTIONS)[i]
  /\ \A i, j \in DOMAIN field_positions :
       i < j => /\ Before(field_positions[i], field_positions[j])
                /\ field_positions[i].page <= field_positions[j].page
                /\ << field_positions[i].page, field_positions[i].y >> #
                     << field_positions[j].page, field_positions[j].y >>

\* Three fields were laid out over two pages: the third lies on a later
\* page than the second, and higher up on it.
C27_Witness ==
  /\ LayoutFinished
  /\ Len(field_positions) = 3
  /\ field_positions[1].page = field_positions[2].page
  /\ field_positions[2].page < field_positions[3].page
  /\ field_positions[3].y < field_positions[2].y

\* The most pages a layout may take: the initial page, one break per section
\* header, one per field row and one for the signature block.
PageBound(sections) == 2 + Len(sections) + DeclaredCount(sections)

\* C28: generate_blank_form terminates for every finite schema, and the
\* number of pages it creates is at most 2 + (number of sections) + (number
\* of fields).
C28_TerminatesWithinPageBound ==
  /\ <>(pc = "mock_api_fetch_person" /\ blank_pdf = doc)
  /\ [](Len(doc) <= PageBound(FORM_SECTIONS))

\* A finished layout one page short of the bound: the section header, the
\* last row and the signature block each opened a page.
C28_Witness ==
  /\ LayoutFinished
  /\ Len(doc) >= 4
  /\ Len(doc) = PageBound(FORM_SECTIONS) - 1

\* The page holds a section header band, a field row or the signature block.
HasBody(page) == \E i \in DOMAIN page : page[i].op \in {"section", "row", "signature"}

\* C29: every page produced by generate_blank_form carries body content
\* besides the page header and the footer: the engine never closes a page on
\* which nothing but the page header has been drawn.
C29_NoEmptyPage ==
  /\ \A p \in finalized : HasBody(doc[p])
  /\ LayoutFinished => \A p \in DOMAIN blank_pdf : HasBody(blank_pdf[p])

\* The header and all the rows of the section fit on a fresh page.
FitsFreshPage(section) ==
  HEADER_BOTTOM + band_h + BAND_GAP + row_h * Len(section.fields) + SECTION_SLACK
    <= BottomLimit(page_height)

\* The registry entries of the fields of a section.
EntriesOf(section) ==
  {i \in DOMAIN field_positions :
     \E f \in DOMAIN section.fields : section.fields[f].key = field_positions[i].key}

====
